---- MODULE Spec2Model ----
(***************************************************************************)
(* A model of the realtime audio relay of AIWhisperers/VTT.                *)
(*                                                                         *)
(*   server  : src/unnamed/part_000 (server.js) and                         *)
(*             src/openai-backend/openaiClient.js (class OpenAIClient)      *)
(*   browser : src/openai-frontend/src/AudioChat.js                         *)
(*                                                                         *)
(* Three specifications share the variables:                               *)
(*   Spec            one server process, its sessions and upstream sockets *)
(*   SpecBrowser     the browser's audio assembler and playback queue      *)
(*   SpecDispatcher  OpenAIClient.on / OpenAIClient.emit called directly   *)
(***************************************************************************)
EXTENDS Integers, Sequences, FiniteSets, TLC

(***************************************************************************)
(* Bounds of the model.                                                    *)
(***************************************************************************)
\* messages one upstream socket may be handed (session.update included)
MaxUpOut == 3
\* calls of on() in the dispatcher harness
MaxRegs == 3
\* audio deltas the browser receives in a run
MaxChunks == 3
\* audio-done signals that enqueue a unit in a run
MaxUnits == 3
\* conversations the user starts in a run
MaxStarts == 2

(***************************************************************************)
(* Values.                                                                 *)
(***************************************************************************)
\* socket.io client sockets (socket.id)
Sessions == {"A", "B"}

\* a base64 text is a sequence of characters; <<>> is the empty string
B64QQ == <<"Q", "Q", "=", "=">>
B64Qg == <<"Q", "g", "=", "=">>
B64QUI == <<"Q", "U", "I", "=">>
B64Bad == <<"Q", "!", "=", "=">>
NoAudio == <<>>

\* an event object: what JSON.parse hands to handleEvent, what emit hands to
\* a handler, and what socket.emit hands to the client
Ev(type, text, audio, code) ==
    [type |-> type, text |-> text, audio |-> audio, code |-> code]

NoEv == Ev("none", "", NoAudio, 0)

\* the names handleEvent's switch has a case for (openaiClient.js 80-97)
\* and the two more the server registers handlers for (part_000 119-120)
ConsumedTypes ==
    { "response.audio.delta", "response.audio.done", "response.done",
      "conversation.item.input_audio_transcription.completed",
      "response.audio_transcript.delta", "response.audio_transcript.done",
      "error" }

\* inbound messages of the upstream service, well formed JSON
Inbound ==
    { Ev("response.audio.delta", "", B64QQ, 0),
      Ev("response.audio.delta", "", NoAudio, 0),
      Ev("response.audio.done", "", NoAudio, 0),
      Ev("response.done", "hello", NoAudio, 0),
      Ev("response.done", "", NoAudio, 0),
      Ev("conversation.item.input_audio_transcription.completed", "hi", NoAudio, 0),
      Ev("response.audio_transcript.delta", "he", NoAudio, 0),
      Ev("response.audio_transcript.delta", "", NoAudio, 0),
      Ev("response.audio_transcript.done", "", NoAudio, 0),
      Ev("error", "upstream error", NoAudio, 0),
      Ev("conversation.updated", "", NoAudio, 0),
      Ev("session.created", "", NoAudio, 0) }

\* a frame of the upstream service whose text is not JSON: only the raw text
\* exists, JSON.parse(data) (openaiClient.js 61) throws a SyntaxError
Unparsable == Ev("unparsable", "{\"type\":", NoAudio, 0)

JsonParseThrows(m) == m = Unparsable

\* close codes of the upstream socket: normal closure, abnormal closure
CloseCodes == {1000, 1006}

(***************************************************************************)
(* The microphone pipeline of the browser.  A sample of a captured frame   *)
(* is written in halves: -3 is -1.5, 1 is 0.5, 2 is 1.0.                   *)
(***************************************************************************)
\* buf[i] = ... of an Int16Array: the fraction is dropped, the integer kept
\* modulo 2^16
ToInt16(twice) ==
    LET n == IF twice >= 0 THEN twice \div 2 ELSE -((-twice) \div 2)
        m == n % 65536
    IN  IF m >= 32768 THEN m - 65536 ELSE m

Max(a, b) == IF a >= b THEN a ELSE b

Min(a, b) == IF a <= b THEN a ELSE b

\* float32ToInt16 (AudioChat.js 182-190)
Float32ToInt16Unclamped(buffer) ==
    [i \in 1..Len(buffer) |->
        LET s == buffer[i]
        IN  ToInt16(IF s < 0 THEN s * 32768 ELSE s * 32767)]

Float32ToInt16(buffer) ==
    [i \in 1..Len(buffer) |->
        LET s == Max(-2, Min(2, buffer[i]))
        IN  ToInt16(IF s < 0 THEN s * 32768 ELSE s * 32767)]

\* int16Buffer.buffer: the bytes of the samples, low byte first
RECURSIVE Int16Bytes(_)
Int16Bytes(buf) ==
    IF buf = << >> THEN << >>
    ELSE LET u == Head(buf) % 65536
         IN  << u % 256, u \div 256 >> \o Int16Bytes(Tail(buf))

B64Chars ==
    <<
       "A", "B", "C", "D", "E", "F", "G", "H", "I", "J", "K", "L", "M",
       "N", "O", "P", "Q", "R", "S", "T", "U", "V", "W", "X", "Y", "Z",
       "a", "b", "c", "d", "e", "f", "g", "h", "i", "j", "k", "l", "m",
       "n", "o", "p", "q", "r", "s", "t", "u", "v", "w", "x", "y", "z",
       "0", "1", "2", "3", "4", "5", "6", "7", "8", "9", "+", "/" >>

B64Char(v) == B64Chars[v + 1]

\* rawPCM.toString('base64')
RECURSIVE Base64Encode(_)
Base64Encode(b) ==
    IF b = << >> THEN << >>
    ELSE IF Len(b) = 1
    THEN << B64Char(b[1] \div 4), B64Char((b[1] % 4) * 16), "=", "=" >>
    ELSE IF Len(b) = 2
    THEN << B64Char(b[1] \div 4), B64Char((b[1] % 4) * 16 + b[2] \div 16),
            B64Char((b[2] % 16) * 4), "=" >>
    ELSE << B64Char(b[1] \div 4), B64Char((b[1] % 4) * 16 + b[2] \div 16),
            B64Char((b[2] % 16) * 4 + b[3] \div 64), B64Char(b[3] % 64) >>
         \o Base64Encode(SubSeq(b, 4, Len(b)))

\* processAudioChunk (AudioChat.js 162-179): the audio field of the
\* input_audio event emitted for a captured frame
ProcessAudioChunk(channelData) ==
    Base64Encode(Int16Bytes(Float32ToInt16(channelData)))

\* frames the microphone delivers (onaudioprocess, AudioChat.js 105-109): a
\* sample beyond the range next to one inside it, a full-scale sample
MicFrames == { << -3, 1 >>, << 2 >> }

\* audio fields of a client's input_audio payload: the chunks of captured
\* frames, and none
InputAudio == {ProcessAudioChunk(f) : f \in MicFrames} \cup {NoAudio}

VARIABLES
    clients,        \* the sockets that will connect to this server process
    crashed,        \* the server process died of an uncaught exception
    sock,           \* per session: "none" | "connected" | "disconnected"
    ws,             \* per session: this.ws, "null" or the socket's readyState
    promise,        \* per session: the promise of connect()
    installed,      \* per session: the .then callback of connect() has run
    eventHandlers,  \* per session: this.eventHandlers, name -> handlers
    upOut,          \* per session: the messages handed to ws.send, in order
    last,           \* the callback that ran last, and what it did
    closeEvents,    \* history, per session: the 'close' events its socket emitted
    regLog,         \* dispatcher harness: the calls of on() so far
    audioChunks,    \* browser: audioChunksRef.current
    audioQueue,     \* browser: audioQueueRef.current
    assistantAudio, \* browser: assistantAudioRef.current, 0 for null
    playing,        \* browser: the Audio objects that are playing
    nextId,         \* browser: the identity of the next Audio object
    nChunks,        \* browser: audio deltas received so far
    sinceDone,      \* history: the deltas received since the previous done signal
    started,        \* history: the Audio objects play() was called on, in order
    finished,       \* history: the Audio objects whose playback ended or errored
    removed,        \* history: the Audio objects shifted out of the queue
    stale,          \* history: the deltas at the front of audioChunksRef.current
                    \* that were received in an earlier conversation
    active,         \* browser: isConversationActive
    socketRef,      \* browser: socketRef.current, "null" or "connected"
    starts,         \* history: the conversations started so far
    pendingMic,     \* browser: the calls of getUserMedia still awaited, each
                    \* named by the conversation that made it
    mediaStreamRef, \* browser: mediaStreamRef.current, 0 for null
    audioContextRef, \* browser: audioContextRef.current, 0 for null
    processorRef,   \* browser: processorRef.current, 0 for null
    liveStreams,    \* browser: the media streams whose tracks are not stopped
    openContexts,   \* browser: the audio contexts that are not closed
    connected,      \* browser: the script processors that are connected
    lastFrame       \* the frame onaudioprocess handled last, and what became of it

serverVars == <<clients, crashed, sock, ws, promise, installed, eventHandlers,
                upOut, last, closeEvents, regLog>>

convVars == <<active, socketRef, starts>>

micVars == <<pendingMic, mediaStreamRef, audioContextRef, processorRef, liveStreams,
             openContexts, connected, lastFrame>>

browserVars == <<audioChunks, audioQueue, assistantAudio, playing, nextId, nChunks,
                 sinceDone, started, finished, removed, stale, convVars, micVars>>

vars == <<serverVars, browserVars>>

(***************************************************************************)
(* OpenAIClient.on and OpenAIClient.emit (openaiClient.js 103-125).        *)
(* this.eventHandlers starts as the object literal {}: a name that was     *)
(* never registered reads as undefined, except a name Object.prototype     *)
(* defines, which reads as that inherited member (truthy, not an array).   *)
(***************************************************************************)
NoHandlers == [e \in {} |-> <<>>]

ProtoNames == {"constructor"}

\* this.eventHandlers[event] is an inherited member of Object.prototype
Inherited(hs, event) == event \notin DOMAIN hs /\ event \in ProtoNames

\* on(event, handler): the registry afterwards
OnPrepend(hs, event, handler) ==
    IF event = "" \/ Inherited(hs, event) THEN hs
    ELSE IF event \in DOMAIN hs
         THEN [hs EXCEPT ![event] = <<handler>> \o @]
         ELSE [e \in DOMAIN hs \cup {event} |->
                  IF e = event THEN <<handler>> ELSE hs[e]]

On(hs, event, handler) ==
    IF event = "" THEN hs                          \* line 104: logged, refused
    ELSE IF Inherited(hs, event) THEN hs           \* line 112: push is no function, throws
    ELSE IF event \in DOMAIN hs
         THEN [hs EXCEPT ![event] = Append(@, handler)]
         ELSE [e \in DOMAIN hs \cup {event} |->
                  IF e = event THEN <<handler>> ELSE hs[e]]

\* emit(event, data): the handlers invoked, in the order of invocation
EmitCalls(hs, event) ==
    IF event = "" THEN <<>>                        \* line 116: logged, refused
    ELSE IF event \in DOMAIN hs THEN hs[event]     \* line 121: forEach
    ELSE <<>>                                      \* line 123: warned (or forEach is no function)

(***************************************************************************)
(* The handlers of a session (part_000 56-112): what each hands to         *)
(* socket.emit when invoked with data.                                     *)
(***************************************************************************)
HandlerOut(h, data) ==
    CASE h = "handleResponseAudioDelta" ->
            IF data.audio # NoAudio
            THEN << Ev("assistant_audio_chunk", "", data.audio, 0) >>
            ELSE << >>
      [] h = "handleResponseAudioDone" ->
            << Ev("assistant_audio_done", "", NoAudio, 0) >>
      [] h = "handleResponseDone" ->
            IF data.text # ""
            THEN << Ev("assistant_text", data.text, NoAudio, 0) >>
            ELSE << >>
      [] h = "handleTranscriptionCompleted" ->
            IF data.text # ""
            THEN << Ev("transcript", data.text, NoAudio, 0) >>
            ELSE << >>
      [] h = "handleAssistantTranscriptDelta" ->
            IF data.text # ""
            THEN << Ev("assistant_transcript_delta", data.text, NoAudio, 0) >>
            ELSE << >>
      [] h = "handleAssistantTranscriptDone" ->
            << Ev("assistant_transcript_done", "", NoAudio, 0) >>
      [] h = "handleError" ->
            << Ev("error", data.text, NoAudio, 0) >>
      [] h = "handleClose" ->
            << Ev("openai_connection_closed", data.text, NoAudio, data.code) >>
      [] OTHER -> << >>

RECURSIVE HandlersOut(_, _)
HandlersOut(hseq, data) ==
    IF hseq = << >> THEN << >>
    ELSE HandlerOut(Head(hseq), data) \o HandlersOut(Tail(hseq), data)

\* socket.emit of a disconnected socket.io socket writes nothing
Delivered(s, evs) == IF sock[s] = "connected" THEN evs ELSE << >>

\* the record of one callback: the session, the event it handled, the handlers
\* emit invoked, the events the client was sent, whether ws.send threw in it
Did(s, ev, calls, out) ==
    [s |-> s, ev |-> ev, calls |-> calls, out |-> out, threw |-> FALSE]

(***************************************************************************)
(* OpenAIClient.handleEvent (openaiClient.js 77-101): the name the switch  *)
(* emits for an event type, "" for the default branch.                     *)
(***************************************************************************)
SwitchDefaultError(type) ==
    IF type \in { "conversation.updated", "response.audio.delta",
                  "response.audio.done", "response.done",
                  "conversation.item.input_audio_transcription.completed",
                  "error" }
    THEN type ELSE "error"

Switch(type) ==
    IF type \in { "conversation.updated", "response.audio.delta",
                  "response.audio.done", "response.done",
                  "conversation.item.input_audio_transcription.completed",
                  "error" }
    THEN type ELSE ""

\* the handlers handleEvent(event) invokes
HandleEventCalls(hs, event) == EmitCalls(hs, Switch(event.type))

(***************************************************************************)
(* The event loop of the server process.  A promise reaction (the .then    *)
(* callback of connect()) is a microtask: it runs before the next I/O      *)
(* callback of the process.                                                *)
(***************************************************************************)
MicrotaskPending(s) == promise[s] = "resolved" /\ ~installed[s]

\* an I/O callback may run
Idle == ~crashed /\ \A s \in Sessions : ~MicrotaskPending(s)

Init ==
    /\ clients = {"A"}
    /\ crashed = FALSE
    /\ sock = [s \in Sessions |-> "none"]
    /\ ws = [s \in Sessions |-> "null"]
    /\ promise = [s \in Sessions |-> "none"]
    /\ installed = [s \in Sessions |-> FALSE]
    /\ eventHandlers = [s \in Sessions |-> NoHandlers]
    /\ upOut = [s \in Sessions |-> << >>]
    /\ last = Did("A", NoEv, << >>, << >>)
    /\ closeEvents = [s \in Sessions |-> 0]
    /\ regLog = << >>
    /\ audioChunks = << >>
    /\ audioQueue = << >>
    /\ assistantAudio = 0
    /\ playing = {}
    /\ nextId = 1
    /\ nChunks = 0
    /\ sinceDone = << >>
    /\ started = << >>
    /\ finished = {}
    /\ removed = {}
    /\ stale = 0
    /\ active = FALSE
    /\ socketRef = "null"
    /\ starts = 0
    /\ pendingMic = {}
    /\ mediaStreamRef = 0
    /\ audioContextRef = 0
    /\ processorRef = 0
    /\ liveStreams = {}
    /\ openContexts = {}
    /\ connected = {}
    /\ lastFrame = [capture |-> 0, audio |-> NoAudio, emitted |-> FALSE,
                    whileActive |-> FALSE]

\* io.on('connection') (part_000 45-52, 157): new OpenAIClient, connect(),
\* which creates the WebSocket and installs its four listeners.  The executor
\* of connect() never calls reject, so the promise stays "pending" or becomes
\* "resolved", and the .catch callback (part_000 157-160) has no step here.
Connection(s) ==
    /\ Idle
    /\ s \in clients
    /\ sock[s] = "none"
    /\ sock' = [sock EXCEPT ![s] = "connected"]
    /\ ws' = [ws EXCEPT ![s] = "CONNECTING"]
    /\ promise' = [promise EXCEPT ![s] = "pending"]
    /\ last' = Did(s, Ev("connection", "", NoAudio, 0), << >>, << >>)
    /\ UNCHANGED <<clients, closeEvents, crashed, installed, eventHandlers, upOut, regLog, browserVars>>

\* ws.on('open') (openaiClient.js 40-58): send session.update, resolve()
WsOpenNoConfig(s) ==
    /\ Idle
    /\ ws[s] = "CONNECTING"
    /\ ws' = [ws EXCEPT ![s] = "OPEN"]
    /\ promise' = [promise EXCEPT ![s] = "resolved"]
    /\ last' = Did(s, Ev("open", "", NoAudio, 0), << >>, << >>)
    /\ UNCHANGED <<clients, closeEvents, crashed, sock, installed, eventHandlers, upOut, regLog, browserVars>>

WsOpen(s) ==
    /\ Idle
    /\ ws[s] = "CONNECTING"
    /\ ws' = [ws EXCEPT ![s] = "OPEN"]
    /\ upOut' = [upOut EXCEPT ![s] = Append(@, Ev("session.update", "", NoAudio, 0))]
    /\ promise' = [promise EXCEPT ![s] = "resolved"]
    /\ last' = Did(s, Ev("open", "", NoAudio, 0), << >>, << >>)
    /\ UNCHANGED <<clients, closeEvents, crashed, sock, installed, eventHandlers, regLog, browserVars>>

\* the eight registrations of the .then callback (part_000 115-122)
RegisteredNoClose ==
    LET h1 == On(NoHandlers, "response.audio.delta", "handleResponseAudioDelta")
        h2 == On(h1, "response.audio.done", "handleResponseAudioDone")
        h3 == On(h2, "response.done", "handleResponseDone")
        h4 == On(h3, "conversation.item.input_audio_transcription.completed",
                 "handleTranscriptionCompleted")
        h5 == On(h4, "response.audio_transcript.delta", "handleAssistantTranscriptDelta")
        h6 == On(h5, "response.audio_transcript.done", "handleAssistantTranscriptDone")
    IN  On(h6, "error", "handleError")

RegisteredNoError ==
    LET h1 == On(NoHandlers, "response.audio.delta", "handleResponseAudioDelta")
        h2 == On(h1, "response.audio.done", "handleResponseAudioDone")
        h3 == On(h2, "response.done", "handleResponseDone")
        h4 == On(h3, "conversation.item.input_audio_transcription.completed",
                 "handleTranscriptionCompleted")
        h5 == On(h4, "response.audio_transcript.delta", "handleAssistantTranscriptDelta")
        h6 == On(h5, "response.audio_transcript.done", "handleAssistantTranscriptDone")
    IN  On(h6, "close", "handleClose")

Registered ==
    LET h1 == On(NoHandlers, "response.audio.delta", "handleResponseAudioDelta")
        h2 == On(h1, "response.audio.done", "handleResponseAudioDone")
        h3 == On(h2, "response.done", "handleResponseDone")
        h4 == On(h3, "conversation.item.input_audio_transcription.completed",
                 "handleTranscriptionCompleted")
        h5 == On(h4, "response.audio_transcript.delta", "handleAssistantTranscriptDelta")
        h6 == On(h5, "response.audio_transcript.done", "handleAssistantTranscriptDone")
        h7 == On(h6, "error", "handleError")
    IN  On(h7, "close", "handleClose")

\* connect().then(...) (part_000 52-156): register the handlers with the
\* OpenAIClient and install the socket's listeners
ThenCallback(s) ==
    /\ ~crashed
    /\ MicrotaskPending(s)
    /\ eventHandlers' = [eventHandlers EXCEPT ![s] = Registered]
    /\ installed' = [installed EXCEPT ![s] = TRUE]
    /\ last' = Did(s, Ev("then", "", NoAudio, 0), << >>, << >>)
    /\ UNCHANGED <<clients, closeEvents, crashed, sock, ws, promise, upOut, regLog, browserVars>>

\* ws.on('message') (openaiClient.js 60-63, 77-101): JSON.parse runs in the
\* listener with no try around it, so what it throws is an uncaught
\* exception of the server process
WsMessage(s, m) ==
    /\ Idle
    /\ ws[s] \in {"OPEN", "CLOSING"}
    /\ IF JsonParseThrows(m)
       THEN /\ crashed' = TRUE
            /\ last' = Did(s, m, << >>, << >>)
       ELSE /\ LET calls == HandleEventCalls(eventHandlers[s], m)
               IN  last' = Did(s, m, calls, Delivered(s, HandlersOut(calls, m)))
            /\ UNCHANGED crashed
    /\ UNCHANGED <<clients, closeEvents, sock, ws, promise, installed, eventHandlers,
                   upOut, regLog, browserVars>>

\* ws.on('error') of an established connection (openaiClient.js 65-68); the
\* transport may or may not start closing with it
WsError(s, closing) ==
    /\ Idle
    /\ ws[s] = "OPEN"
    /\ ws' = [ws EXCEPT ![s] = IF closing THEN "CLOSING" ELSE "OPEN"]
    /\ LET err == Ev("ws.error", "socket hang up", NoAudio, 0)
           calls == EmitCalls(eventHandlers[s], "error")
       IN  last' = Did(s, err, calls, Delivered(s, HandlersOut(calls, err)))
    /\ UNCHANGED <<clients, closeEvents, crashed, sock, promise, installed, eventHandlers,
                   upOut, regLog, browserVars>>

\* the handshake fails (refused, unexpected response such as 401): the
\* socket emits 'error' and then 'close' (openaiClient.js 65-73); neither
\* listener settles the promise
WsHandshakeFail(s, code) ==
    /\ Idle
    /\ ws[s] = "CONNECTING"
    /\ ws' = [ws EXCEPT ![s] = "CLOSED"]
    /\ closeEvents' = [closeEvents EXCEPT ![s] = @ + 1]
    /\ LET err == Ev("ws.error", "Unexpected server response: 401", NoAudio, 0)
           cls == Ev("ws.close", "", NoAudio, code)
           c1 == EmitCalls(eventHandlers[s], "error")
           c2 == EmitCalls(eventHandlers[s], "close")
       IN  last' = Did(s, cls, c1 \o c2,
                       Delivered(s, HandlersOut(c1, err) \o HandlersOut(c2, cls)))
    /\ UNCHANGED <<clients, crashed, sock, promise, installed, eventHandlers,
                   upOut, regLog, browserVars>>

\* ws.on('close') of an established connection (openaiClient.js 70-73)
WsClose(s, code) ==
    /\ Idle
    /\ ws[s] \in {"OPEN", "CLOSING"}
    /\ ws' = [ws EXCEPT ![s] = "CLOSED"]
    /\ closeEvents' = [closeEvents EXCEPT ![s] = @ + 1]
    /\ LET cls == Ev("ws.close", "bye", NoAudio, code)
           calls == EmitCalls(eventHandlers[s], "close")
       IN  last' = Did(s, cls, calls, Delivered(s, HandlersOut(calls, cls)))
    /\ UNCHANGED <<clients, crashed, sock, promise, installed, eventHandlers,
                   upOut, regLog, browserVars>>

\* if (audio) (part_000 128): the payload's audio field is neither missing
\* nor empty
AcceptsAny(audio) == TRUE

Accepts(audio) == audio # NoAudio

\* this.ws.send(...) (openaiClient.js 134) puts the message on the wire: only
\* an OPEN socket does
SendDeliversAlways(w) == TRUE

SendDelivers(w) == w = "OPEN"

\* socket.on('input_audio') (part_000 125-138) and sendAudioChunk
\* (openaiClient.js 127-140).  ws.send of a socket that is not OPEN either
\* drops the message or throws, by the version of the ws package: thrown is
\* the outcome taken.
ClientInputAudio(s, audio, thrown) ==
    /\ Idle
    /\ sock[s] = "connected"
    /\ LET ev == Ev("input_audio", "", audio, 0)
       IN  IF ~installed[s] \/ ~Accepts(audio)
           THEN /\ ~thrown
                /\ last' = Did(s, ev, << >>, << >>)
                /\ UNCHANGED upOut
           ELSE IF SendDelivers(ws[s])
           THEN /\ ~thrown
                /\ Len(upOut[s]) < MaxUpOut
                /\ upOut' = [upOut EXCEPT ![s] =
                               Append(@, Ev("input_audio_buffer.append", "", audio, 0))]
                /\ last' = Did(s, ev, << >>, << >>)
           ELSE IF thrown
           THEN LET err == Ev("send.error", "Error sending audio chunk to OpenAI.",
                              NoAudio, 0)
                    calls == EmitCalls(eventHandlers[s], "error")
                IN  /\ last' = [Did(s, ev, calls, Delivered(s, HandlersOut(calls, err)))
                                 EXCEPT !.threw = TRUE]
                    /\ UNCHANGED upOut
           ELSE /\ last' = Did(s, ev, << >>, << >>)
                /\ UNCHANGED upOut
    /\ UNCHANGED <<clients, closeEvents, crashed, sock, ws, promise, installed, eventHandlers,
                   regLog, browserVars>>

\* socket.on('input_text') (part_000 141-145): OpenAIClient defines no
\* sendUserText, the call throws a TypeError that nothing catches
ClientInputText(s) ==
    /\ Idle
    /\ sock[s] = "connected"
    /\ crashed' = installed[s]
    /\ last' = Did(s, Ev("input_text", "hello", NoAudio, 0), << >>, << >>)
    /\ UNCHANGED <<clients, closeEvents, sock, ws, promise, installed, eventHandlers, upOut,
                   regLog, browserVars>>

\* OpenAIClient.close (openaiClient.js 142-146): ws.close() of a socket that
\* is CLOSING or CLOSED does nothing
CloseAny(w) == IF w = "null" THEN w ELSE "CLOSING"

Close(w) == IF w \in {"CONNECTING", "OPEN"} THEN "CLOSING" ELSE w

\* the client goes away; socket.on('disconnect') (part_000 148-151) runs if
\* it was installed
ClientDisconnect(s) ==
    /\ Idle
    /\ sock[s] = "connected"
    /\ sock' = [sock EXCEPT ![s] = "disconnected"]
    /\ ws' = [ws EXCEPT ![s] = IF installed[s] THEN Close(@) ELSE @]
    /\ last' = Did(s, Ev("disconnect", "", NoAudio, 0), << >>, << >>)
    /\ UNCHANGED <<clients, closeEvents, crashed, promise, installed, eventHandlers, upOut,
                   regLog, browserVars>>

Next ==
    \E s \in Sessions :
        \/ Connection(s)
        \/ WsOpen(s)
        \/ ThenCallback(s)
        \/ \E m \in Inbound \cup {Unparsable} : WsMessage(s, m)
        \/ \E closing \in BOOLEAN : WsError(s, closing)
        \/ \E code \in CloseCodes : WsHandshakeFail(s, code)
        \/ \E code \in CloseCodes : WsClose(s, code)
        \/ \E audio \in InputAudio, thrown \in BOOLEAN : ClientInputAudio(s, audio, thrown)
        \/ ClientInputText(s)
        \/ ClientDisconnect(s)

Spec == Init /\ [][Next]_vars

\* two clients connect to the one server process (part_000 45: the
\* connection callback runs once per socket, each with its own OpenAIClient)
InitTwo ==
    /\ clients = {"A", "B"}
    /\ crashed = FALSE
    /\ sock = [s \in Sessions |-> "none"]
    /\ ws = [s \in Sessions |-> "null"]
    /\ promise = [s \in Sessions |-> "none"]
    /\ installed = [s \in Sessions |-> FALSE]
    /\ eventHandlers = [s \in Sessions |-> NoHandlers]
    /\ upOut = [s \in Sessions |-> << >>]
    /\ last = Did("A", NoEv, << >>, << >>)
    /\ closeEvents = [s \in Sessions |-> 0]
    /\ regLog = << >>
    /\ audioChunks = << >>
    /\ audioQueue = << >>
    /\ assistantAudio = 0
    /\ playing = {}
    /\ nextId = 1
    /\ nChunks = 0
    /\ sinceDone = << >>
    /\ started = << >>
    /\ finished = {}
    /\ removed = {}
    /\ stale = 0
    /\ active = FALSE
    /\ socketRef = "null"
    /\ starts = 0
    /\ pendingMic = {}
    /\ mediaStreamRef = 0
    /\ audioContextRef = 0
    /\ processorRef = 0
    /\ liveStreams = {}
    /\ openContexts = {}
    /\ connected = {}
    /\ lastFrame = [capture |-> 0, audio |-> NoAudio, emitted |-> FALSE,
                    whileActive |-> FALSE]

SpecTwo == InitTwo /\ [][Next]_vars

(***************************************************************************)
(* OpenAIClient.on and OpenAIClient.emit called directly, with any names:  *)
(* the harness catches what they throw.                                    *)
(***************************************************************************)
EventNames == {"", "x", "y", "constructor"}

HarnessHandlers == {"H1", "H2"}

CallOn(e, h) ==
    /\ Len(regLog) < MaxRegs
    /\ regLog' = Append(regLog, <<e, h>>)
    /\ eventHandlers' = [eventHandlers EXCEPT !["A"] = On(@, e, h)]
    /\ last' = Did("A", Ev("on", e, NoAudio, 0), << >>, << >>)
    /\ UNCHANGED <<clients, closeEvents, crashed, sock, ws, promise, installed, upOut, browserVars>>

CallEmit(e) ==
    /\ last' = Did("A", Ev("emit", e, NoAudio, 0), EmitCalls(eventHandlers["A"], e), << >>)
    /\ UNCHANGED <<clients, closeEvents, crashed, sock, ws, promise, installed, eventHandlers,
                   upOut, regLog, browserVars>>

NextDispatcher ==
    \/ \E e \in EventNames, h \in HarnessHandlers : CallOn(e, h)
    \/ \E e \in EventNames : CallEmit(e)

SpecDispatcher == Init /\ [][NextDispatcher]_vars

(***************************************************************************)
(* The browser (AudioChat.js).  window.atob, the forgiving base64 decoder: *)
(* a text whose length is a multiple of 4 loses one or two trailing "=";   *)
(* a length of 1 modulo 4, or a character outside the alphabet, throws.    *)
(***************************************************************************)
B64Alphabet == {"Q", "U", "I", "g"}

B64Val(c) ==
    CASE c = "I" -> 8
      [] c = "Q" -> 16
      [] c = "U" -> 20
      [] c = "g" -> 32
      [] OTHER -> 0

StripPadding(s) ==
    IF Len(s) > 0 /\ Len(s) % 4 = 0 /\ s[Len(s)] = "="
    THEN IF s[Len(s) - 1] = "=" THEN SubSeq(s, 1, Len(s) - 2)
         ELSE SubSeq(s, 1, Len(s) - 1)
    ELSE s

AtobThrows(s) ==
    LET t == StripPadding(s)
    IN  \/ Len(t) % 4 = 1
        \/ \E i \in 1..Len(t) : t[i] \notin B64Alphabet

RECURSIVE DecodeGroups(_)
DecodeGroups(t) ==
    IF Len(t) = 0 THEN << >>
    ELSE IF Len(t) = 2
    THEN << (B64Val(t[1]) * 64 + B64Val(t[2])) \div 16 >>
    ELSE IF Len(t) = 3
    THEN LET n == ((B64Val(t[1]) * 64 + B64Val(t[2])) * 64 + B64Val(t[3])) \div 4
         IN  << n \div 256, n % 256 >>
    ELSE LET n == ((B64Val(t[1]) * 64 + B64Val(t[2])) * 64 + B64Val(t[3])) * 64
                  + B64Val(t[4])
         IN  << n \div 65536, (n \div 256) % 256, n % 256 >>
             \o DecodeGroups(SubSeq(t, 5, Len(t)))

\* base64ToUint8Array (AudioChat.js 302-310), for a text atob accepts
Base64ToUint8Array(s) == DecodeGroups(StripPadding(s))

RECURSIVE SumLen(_)
SumLen(chunks) ==
    IF chunks = << >> THEN 0 ELSE Len(Head(chunks)) + SumLen(Tail(chunks))

\* concatenated.set(chunk, offset) for each chunk in turn (AudioChat.js 199-203)
RECURSIVE SetAllReversed(_, _, _)
SetAllReversed(arr, chunks, offset) ==
    IF chunks = << >> THEN arr
    ELSE LET c == chunks[Len(chunks)]
         IN  SetAllReversed([i \in 1..Len(arr) |->
                               IF i > offset /\ i <= offset + Len(c)
                               THEN c[i - offset] ELSE arr[i]],
                            SubSeq(chunks, 1, Len(chunks) - 1), offset + Len(c))

RECURSIVE SetAll(_, _, _)
SetAll(arr, chunks, offset) ==
    IF chunks = << >> THEN arr
    ELSE LET c == Head(chunks)
         IN  SetAll([i \in 1..Len(arr) |->
                       IF i > offset /\ i <= offset + Len(c)
                       THEN c[i - offset] ELSE arr[i]],
                    Tail(chunks), offset + Len(c))

\* the 44 bytes encodeWAV writes before the samples (AudioChat.js 257)
HeaderLen == 44

\* encodeWAV (AudioChat.js 256-292) and new Audio(url): the object enqueued;
\* from is history, the deltas the samples were decoded from.  The two
\* length fields are 32 bits wide; the lengths here stay far below 2^32.
EncodeWAV(id, samples, from) ==
    [ id |-> id,
      total |-> HeaderLen + Len(samples),
      riffLen |-> 36 + Len(samples),
      channels |-> 1,
      sampleRate |-> 24000,
      byteRate |-> 24000 * 2,
      blockAlign |-> 2,
      bitsPerSample |-> 16,
      dataLen |-> Len(samples),
      data |-> samples,
      from |-> from ]

\* socket.on('assistant_audio_chunk') (AudioChat.js 56-60)
AssistantAudioChunk(c) ==
    /\ socketRef = "connected"
    /\ nChunks < MaxChunks
    /\ nChunks' = nChunks + 1
    /\ audioChunks' = Append(audioChunks, c)
    /\ sinceDone' = Append(sinceDone, c)
    /\ UNCHANGED <<serverVars, audioQueue, assistantAudio, playing, nextId, started,
                   finished, removed, stale, convVars, micVars>>

\* playNextInQueue (AudioChat.js 231-253) on queue q: the Audio made current
\* and played, 0 if the queue is empty
PlayNextLast(q) == IF q = << >> THEN 0 ELSE q[Len(q)].id

PlayNext(q) == IF q = << >> THEN 0 ELSE q[1].id

\* the Audio playAssistantAudio starts after the push that made the queue q
\* (AudioChat.js 221-223), 0 if none
StartOnPushEager(q) == q[Len(q)].id

StartOnPushNever(q) == 0

StartOnPush(q) == IF Len(q) = 1 THEN PlayNext(q) ELSE 0

\* socket.on('assistant_audio_done') (AudioChat.js 63-68): playAssistantAudio
\* (193-228), whose catch swallows what atob throws, then the buffer reset
AssistantAudioDone ==
    /\ socketRef = "connected"
    /\ nextId <= MaxUnits
    /\ IF \E i \in 1..Len(audioChunks) : AtobThrows(audioChunks[i])
       THEN UNCHANGED <<audioQueue, assistantAudio, playing, nextId, started>>
       ELSE LET binaryChunks == [i \in 1..Len(audioChunks) |->
                                    Base64ToUint8Array(audioChunks[i])]
                totalLength == SumLen(binaryChunks)
                concatenated == SetAll([i \in 1..totalLength |-> 0], binaryChunks, 0)
                audio == EncodeWAV(nextId, concatenated, sinceDone)
                q == Append(audioQueue, audio)
            IN  /\ audioQueue' = q
                /\ nextId' = nextId + 1
                /\ IF StartOnPush(q) # 0
                   THEN /\ assistantAudio' = StartOnPush(q)
                        /\ playing' = playing \cup {StartOnPush(q)}
                        /\ started' = Append(started, StartOnPush(q))
                   ELSE UNCHANGED <<assistantAudio, playing, started>>
    /\ audioChunks' = << >>
    /\ sinceDone' = << >>
    /\ stale' = 0
    /\ UNCHANGED <<serverVars, nChunks, finished, removed, convVars, micVars>>

\* currentAudio.onended / currentAudio.onerror (AudioChat.js 239-252): shift
\* the queue, playNextInQueue.  The playback of an Audio stops once, with
\* one of the two events.
AfterPlayback(u) ==
    /\ u \in playing
    /\ finished' = finished \cup {u}
    /\ LET q == IF audioQueue = << >> THEN << >> ELSE Tail(audioQueue)
       IN  /\ audioQueue' = q
           /\ removed' = IF audioQueue = << >> THEN removed
                         ELSE removed \cup {Head(audioQueue).id}
           /\ IF q = << >>
              THEN /\ playing' = playing \ {u}
                   /\ UNCHANGED <<assistantAudio, started>>
              ELSE /\ assistantAudio' = PlayNext(q)
                   /\ playing' = (playing \ {u}) \cup {PlayNext(q)}
                   /\ started' = Append(started, PlayNext(q))
    /\ UNCHANGED <<serverVars, audioChunks, nextId, nChunks, sinceDone, stale,
                   convVars, micVars>>

AudioEnded(u) == AfterPlayback(u)

AudioError(u) == AfterPlayback(u)

\* the deltas the server relays: never empty (part_000 58)
Chunks == {B64QQ, B64Qg, B64QUI, B64Bad}

\* the button while it reads 'Launch' (AudioChat.js 379-385), and the effect
\* of isConversationActive becoming true (29-33): initSocket (47-86) and
\* startRecording (89-117) up to its await
Launch ==
    /\ ~active
    /\ starts < MaxStarts
    /\ active' = TRUE
    /\ starts' = starts + 1
    /\ socketRef' = "connected"
    /\ pendingMic' = pendingMic \cup {starts + 1}
    /\ UNCHANGED <<serverVars, audioChunks, audioQueue, assistantAudio, playing,
                   nextId, nChunks, sinceDone, started, finished, removed, stale,
                   mediaStreamRef, audioContextRef, processorRef, liveStreams,
                   openContexts, connected, lastFrame>>

\* the continuation of startRecording once getUserMedia resolves
\* (AudioChat.js 96-113): it runs whatever isConversationActive is by then
GetUserMediaResolved(k) ==
    /\ k \in pendingMic
    /\ pendingMic' = pendingMic \ {k}
    /\ mediaStreamRef' = k
    /\ audioContextRef' = k
    /\ processorRef' = k
    /\ liveStreams' = liveStreams \cup {k}
    /\ openContexts' = openContexts \cup {k}
    /\ connected' = connected \cup {k}
    /\ UNCHANGED <<serverVars, audioChunks, audioQueue, assistantAudio, playing,
                   nextId, nChunks, sinceDone, started, finished, removed, stale,
                   convVars, lastFrame>>

\* getUserMedia rejects: the catch of startRecording (AudioChat.js 114-117)
GetUserMediaRejected(k) ==
    /\ k \in pendingMic
    /\ pendingMic' = pendingMic \ {k}
    /\ UNCHANGED <<serverVars, audioChunks, audioQueue, assistantAudio, playing,
                   nextId, nChunks, sinceDone, started, finished, removed, stale,
                   convVars, mediaStreamRef, audioContextRef, processorRef,
                   liveStreams, openContexts, connected, lastFrame>>

\* onaudioprocess of a connected processor of an open context on a live
\* stream (AudioChat.js 105-109), and processAudioChunk (162-179)
AudioProcess(k, channelData) ==
    /\ k \in connected \cap openContexts \cap liveStreams
    /\ lastFrame' = [capture |-> k, audio |-> ProcessAudioChunk(channelData),
                     emitted |-> socketRef # "null", whileActive |-> active]
    /\ UNCHANGED <<serverVars, audioChunks, audioQueue, assistantAudio, playing,
                   nextId, nChunks, sinceDone, started, finished, removed, stale,
                   convVars, pendingMic, mediaStreamRef, audioContextRef,
                   processorRef, liveStreams, openContexts, connected>>

\* the button while it reads 'Silence' (AudioChat.js 379-385), and the
\* cleanup of the effect (35-43): the socket is disconnected and
\* stopRecording (119-159) runs.  The Audio objects are paused and then
\* fire no event; audioChunksRef.current is not touched.
Silence ==
    /\ active
    /\ active' = FALSE
    /\ assistantAudio' = 0
    /\ playing' = {}
    /\ audioQueue' = << >>
    /\ socketRef' = "null"
    /\ stale' = Len(audioChunks)
    /\ connected' = connected \ {processorRef}
    /\ processorRef' = 0
    /\ openContexts' = openContexts \ {audioContextRef}
    /\ audioContextRef' = 0
    /\ liveStreams' = liveStreams \ {mediaStreamRef}
    /\ mediaStreamRef' = 0
    /\ UNCHANGED <<serverVars, audioChunks, nextId, nChunks, sinceDone, started,
                   finished, removed, starts, pendingMic, lastFrame>>

\* one conversation
NextBrowser ==
    \/ Launch
    \/ \E c \in Chunks : AssistantAudioChunk(c)
    \/ AssistantAudioDone
    \/ \E u \in 1..MaxUnits : AudioEnded(u)
    \/ \E u \in 1..MaxUnits : AudioError(u)

SpecBrowser == Init /\ [][NextBrowser]_vars

\* conversations stopped and started again
NextConversations == NextBrowser \/ Silence

SpecConversations == Init /\ [][NextConversations]_vars

\* the playback of an Audio that was started comes to its end or to an
\* error, and the event (currentAudio.onended / onerror, AudioChat.js
\* 239-252) is delivered
PlaybackEnds == \A u \in 1..MaxUnits : WF_vars(AudioEnded(u) \/ AudioError(u))

SpecPlayback == Init /\ [][NextConversations]_vars /\ PlaybackEnds

\* the microphone across conversations
NextMic ==
    \/ Launch
    \/ Silence
    \/ \E k \in 1..MaxStarts : GetUserMediaResolved(k)
    \/ \E k \in 1..MaxStarts : GetUserMediaRejected(k)
    \/ \E k \in 1..MaxStarts, f \in MicFrames : AudioProcess(k, f)

SpecMic == Init /\ [][NextMic]_vars

(***************************************************************************)
(* Claims.                                                                 *)
(***************************************************************************)
Count(seq, type) == Cardinality({i \in 1..Len(seq) : seq[i].type = type})

Contains(seq, x) == \E i \in 1..Len(seq) : seq[i] = x

\* C1: on every upstream connection session.update is the first message
\* handed to the socket and is sent at most once, exactly once when the
\* connection opened; no input_audio_buffer.append precedes it, and the
\* promise of connect() is resolved only when it has been sent.
C1_ConfigFirst ==
    \A s \in Sessions :
        /\ upOut[s] # << >> => upOut[s][1].type = "session.update"
        /\ Count(upOut[s], "session.update") <= 1
        /\ promise[s] = "resolved" => Count(upOut[s], "session.update") = 1
        /\ ws[s] = "OPEN" => Count(upOut[s], "session.update") = 1
        /\ installed[s] => promise[s] = "resolved"

\* an audio chunk was forwarded after the configuration
C1_Witness ==
    \E s \in Sessions :
        /\ Len(upOut[s]) >= 2
        /\ upOut[s][2].type = "input_audio_buffer.append"
        /\ promise[s] = "resolved"

\* C2: at most one Audio is playing, it is the current one at the head of
\* the queue, and an Audio leaves the queue only once its own playback has
\* ended or errored.
C2_MutualExclusion ==
    /\ Cardinality(playing) <= 1
    /\ \A u \in playing : /\ audioQueue # << >>
                          /\ Head(audioQueue).id = u
                          /\ assistantAudio = u
    /\ removed \subseteq finished

\* one Audio plays while another waits, after an earlier one was removed
C2_Witness ==
    /\ playing # {}
    /\ Len(audioQueue) >= 2
    /\ removed # {}

\* C3: the Audio objects start playing in the order of their done signals
\* (identities are given in that order): none is skipped, none starts
\* twice, those not yet started wait in order behind the playing one, and
\* with nothing playing nothing is left waiting.
C3_Fifo ==
    LET waiting == IF playing = {} \/ audioQueue = << >>
                   THEN audioQueue ELSE Tail(audioQueue)
    IN  /\ \A i \in 1..Len(started) : started[i] = i
        /\ \A j \in 1..Len(waiting) : waiting[j].id = Len(started) + j
        /\ Len(started) + Len(waiting) = nextId - 1
        /\ playing = {} => audioQueue = << >>
        /\ finished \subseteq {started[i] : i \in 1..Len(started)}

\* the second Audio plays, a third one waits: both done signals arrived
\* while an Audio was playing
C3_Witness ==
    /\ Len(started) = 2
    /\ finished = {1}
    /\ Len(audioQueue) = 2

\* the bytes atob yields for the deltas of the model
KnownBytes(c) ==
    CASE c = B64QQ -> << 65 >>
      [] c = B64Qg -> << 66 >>
      [] c = B64QUI -> << 65, 66 >>

RECURSIVE Flatten(_)
Flatten(from) ==
    IF from = << >> THEN << >> ELSE KnownBytes(Head(from)) \o Flatten(Tail(from))

\* C4: the data of an enqueued unit is the concatenation, in arrival order,
\* of the decoded bytes of every delta received since the previous done
\* signal; its data-length field is the sum of the decoded lengths and its
\* total length is 44 plus that sum.
C4_Concatenation ==
    \A i \in 1..Len(audioQueue) :
        LET u == audioQueue[i]
        IN  /\ u.data = Flatten(u.from)
            /\ u.dataLen = Len(Flatten(u.from))
            /\ u.total = 44 + Len(Flatten(u.from))

\* a unit built from two deltas of different lengths and a third one
C4_Witness ==
    \E i \in 1..Len(audioQueue) :
        /\ audioQueue[i].from = << B64QUI, B64QQ, B64Qg >>
        /\ audioQueue[i].total = 48

\* the upstream socket closed without ever opening
HandshakeFailed(s) == ws[s] = "CLOSED" /\ promise[s] # "resolved"

\* C5: when the handshake fails connect() fails (its promise is rejected)
\* and the session's handlers are not installed.
C5_ConnectFails ==
    \A s \in Sessions :
        HandshakeFailed(s) => promise[s] = "rejected" /\ ~installed[s]

\* C6: once the client is gone its upstream connection is closing or closed.
C6_DisconnectCloses ==
    \A s \in Sessions :
        sock[s] = "disconnected" => ws[s] \in {"CLOSING", "CLOSED"}

\* the event handleClose sends for a close event
Forwarded(cls) == Ev("openai_connection_closed", cls.text, NoAudio, cls.code)

\* C7 as claimed: every close of the upstream connection, one before OPEN
\* included, is sent to the still connected client with code and reason.
C7_EveryCloseForwarded ==
    (last.ev.type = "ws.close" /\ sock[last.s] = "connected")
        => Contains(last.out, Forwarded(last.ev))

\* C7 as amended: a close of the upstream connection that happens once the
\* session's handlers are installed is sent to the still connected client,
\* once, with code and reason.
C7_CloseForwardedOnceInstalled ==
    (last.ev.type = "ws.close" /\ sock[last.s] = "connected" /\ installed[last.s])
        => last.out = << Forwarded(last.ev) >>

\* an abnormal close of an installed session reached its client
C7_Witness ==
    /\ last.ev.type = "ws.close"
    /\ last.ev.code = 1006
    /\ sock[last.s] = "connected"
    /\ installed[last.s]
    /\ last.out # << >>

\* C8: an inbound message of a consumed type is dispatched to the handlers
\* registered for its type; a transcript delta with text yields one
\* assistant_transcript_delta, a transcript done one
\* assistant_transcript_done.
C8_ConsumedDispatched ==
    (last.ev \in Inbound /\ last.ev.type \in ConsumedTypes /\ installed[last.s])
        => /\ last.calls = eventHandlers[last.s][last.ev.type]
           /\ (last.ev.type = "response.audio_transcript.delta"
                 /\ last.ev.text # "" /\ sock[last.s] = "connected")
              => last.out = << Ev("assistant_transcript_delta", last.ev.text, NoAudio, 0) >>
           /\ (last.ev.type = "response.audio_transcript.done"
                 /\ sock[last.s] = "connected")
              => last.out = << Ev("assistant_transcript_done", "", NoAudio, 0) >>

\* C9: an input_text of an open session is forwarded upstream as a user
\* text turn and the server goes on.
C9_TextForwarded ==
    (last.ev.type = "input_text" /\ installed[last.s] /\ ws[last.s] = "OPEN")
        => /\ ~crashed
           /\ upOut[last.s] # << >>
           /\ upOut[last.s][Len(upOut[last.s])].type = "conversation.item.create"
           /\ upOut[last.s][Len(upOut[last.s])].text = last.ev.text

\* the handlers of the calls on(e, h) in log with e = name, in call order
RECURSIVE HandlersFor(_, _)
HandlersFor(log, name) ==
    IF log = << >> THEN << >>
    ELSE IF Head(log)[1] = name
         THEN << Head(log)[2] >> \o HandlersFor(Tail(log), name)
         ELSE HandlersFor(Tail(log), name)

\* C10: emit(name) invokes the handlers registered for name, once per
\* registration, in registration order, and no other handler; the empty
\* name and a name Object.prototype defines register nothing.
C10_EmitInRegistrationOrder ==
    last.ev.type = "emit" =>
        last.calls = IF last.ev.text = "" \/ last.ev.text \in ProtoNames
                     THEN << >>
                     ELSE HandlersFor(regLog, last.ev.text)

\* two different handlers of one name were invoked while another name has
\* a handler too
C10_Witness ==
    /\ last.ev.type = "emit"
    /\ last.calls = << "H2", "H1" >>
    /\ \E i \in 1..Len(regLog) : regLog[i][1] # last.ev.text /\ regLog[i][1] \in {"x", "y"}

\* the event handleError sends for a failed send
SendFailed == Ev("error", "Error sending audio chunk to OpenAI.", NoAudio, 0)

\* C11: once the upstream connection is CLOSED nothing more is handed to
\* the wire for it, and an input_audio of the client then does nothing or
\* is reported to the client as one error event.
C11_NoSendAfterClosed ==
    /\ [](\A s \in Sessions :
            (last.s = s /\ last.ev.type = "input_audio" /\ ws[s] = "CLOSED")
                => last.out \in { << >>, << SendFailed >> })
    /\ [][\A s \in Sessions : ws[s] = "CLOSED" => upOut'[s] = upOut[s]]_vars

\* a chunk of a connected client met a CLOSED upstream socket and the
\* failure was reported
C11_Witness ==
    /\ last.ev.type = "input_audio"
    /\ last.ev.audio # NoAudio
    /\ ws[last.s] = "CLOSED"
    /\ installed[last.s]
    /\ last.out = << SendFailed >>

\* the step is the arrival of an input_audio event of the client
InputAudioStep == last'.ev.type = "input_audio"

\* C12: an input_audio whose audio field is empty or missing hands nothing
\* to the wire, reports nothing and leaves the session as it was; a chunk
\* with audio, while the session is set up and the upstream socket OPEN, is
\* appended upstream, whatever came before it.
C12_EmptyAudioSkipped ==
    [][InputAudioStep =>
          LET s == last'.s
          IN  /\ last'.ev.audio = NoAudio =>
                    /\ last'.out = << >>
                    /\ UNCHANGED <<upOut, ws, sock, crashed, installed,
                                   eventHandlers>>
              /\ (last'.ev.audio # NoAudio /\ installed[s] /\ ws[s] = "OPEN") =>
                    upOut'[s] = Append(upOut[s],
                                       Ev("input_audio_buffer.append", "",
                                          last'.ev.audio, 0))]_vars

\* an empty payload arrived in a session that is set up and forwarding
C12_Witness ==
    /\ last.ev.type = "input_audio"
    /\ last.ev.audio = NoAudio
    /\ installed[last.s]
    /\ ws[last.s] = "OPEN"
    /\ Len(upOut[last.s]) >= 2

\* C13: an inbound message that does not parse is dropped: no handler runs,
\* nothing is sent to the client and the server keeps running.
C13_MalformedDropped ==
    last.ev = Unparsable =>
        /\ last.calls = << >>
        /\ last.out = << >>
        /\ ~crashed

\* the deltas of a response that decode
WellFormed(from) == SelectSeq(from, LAMBDA c : ~AtobThrows(c))

\* the step is a done signal that finds deltas in the collecting buffer
DoneStep == audioChunks # << >> /\ audioChunks' = << >>

\* C14: a delta that does not decode is skipped on its own: at the done
\* signal a unit is enqueued whose data is the concatenation of the other
\* deltas of the response.
C14_MalformedSkipped ==
    [][(DoneStep /\ WellFormed(audioChunks) # << >>) =>
          /\ Len(audioQueue') = Len(audioQueue) + 1
          /\ audioQueue'[Len(audioQueue')].data = Flatten(WellFormed(audioChunks))]_vars

\* the chunks of the frames (-1.5, 0.5) and (1.0): the 16-bit samples
\* -32768, 16383 and 32767, low byte first, in base64
ChunkOfClipped == << "A", "I", "D", "/", "P", "w", "=", "=" >>

ChunkOfFullScale == << "/", "3", "8", "=" >>

\* C15: a step hands at most one message to the wire of a session, at the
\* end of what was handed over before; an append message is handed over only
\* in the step of an input_audio event of that session and carries the chunk
\* of that event, which is the 16-bit PCM of the captured frame in base64.
\* Hence the appends are, in order, a subsequence of the captured frames,
\* one append at most for a frame.
C15_FramesRelayedInOrder ==
    [][\A s \in Sessions :
          \/ upOut'[s] = upOut[s]
          \/ /\ Len(upOut'[s]) = Len(upOut[s]) + 1
             /\ SubSeq(upOut'[s], 1, Len(upOut[s])) = upOut[s]
             /\ LET sent == upOut'[s][Len(upOut'[s])]
                IN  sent.type = "input_audio_buffer.append" =>
                       /\ last'.s = s
                       /\ last'.ev.type = "input_audio"
                       /\ sent.audio = last'.ev.audio
                       /\ sent.audio \in {ChunkOfClipped, ChunkOfFullScale}]_vars

\* two different frames were relayed, in the order of their capture
C15_Witness ==
    /\ last.ev.type = "input_audio"
    /\ last.ev.audio = ChunkOfFullScale
    /\ Len(upOut[last.s]) = 3
    /\ upOut[last.s][2].audio = ChunkOfClipped
    /\ upOut[last.s][3].audio = ChunkOfFullScale

\* the changes of state of a session's upstream connection; a handshake
\* that fails ends in CLOSED, the socket never having been OPEN
Transitions ==
    { <<"null", "CONNECTING">>, <<"CONNECTING", "OPEN">>,
      <<"CONNECTING", "CLOSED">>, <<"OPEN", "CLOSING">>,
      <<"OPEN", "CLOSED">>, <<"CLOSING", "CLOSED">> }

UnknownTypeStep == last'.ev \in Inbound /\ last'.ev.type \notin ConsumedTypes

\* C17: an inbound message of a type outside the consumed ones is dropped:
\* no handler is invoked, the client is sent nothing, and the session, its
\* registry and its upstream connection stay as they were.
C17_UnknownTypeDropped ==
    [][UnknownTypeStep =>
          /\ last'.calls = << >>
          /\ last'.out = << >>
          /\ UNCHANGED <<crashed, sock, ws, promise, installed, eventHandlers,
                         upOut>>]_vars

\* session.created arrived in a session whose handlers are installed
C17_Witness ==
    /\ last.ev.type = "session.created"
    /\ installed[last.s]
    /\ sock[last.s] = "connected"
    /\ ws[last.s] = "OPEN"

\* the step is a fault in the middle of a session: an error of the
\* transport, an audio send that threw, or an error message of the upstream
\* service
FaultStep ==
    \/ last'.ev.type = "ws.error"
    \/ last'.threw
    \/ last'.ev \in Inbound /\ last'.ev.type = "error"

\* what the client is told of the fault
FaultText(r) ==
    IF r.threw THEN "Error sending audio chunk to OpenAI." ELSE r.ev.text

\* C18: a fault in the middle of a session, whose handlers are installed, is
\* reported to its client as one error event carrying the fault's message,
\* and nothing is torn down by it: the server runs on, the listeners and
\* the registry stay, and the handler does not close the upstream
\* connection (an error of the transport may leave the socket CLOSING, by
\* the transport itself; it is not CLOSED, and its messages still arrive).
C18_FaultReported ==
    [][(FaultStep /\ installed[last'.s]) =>
          LET s == last'.s
          IN  /\ last'.calls = << "handleError" >>
              /\ sock[s] = "connected" =>
                    last'.out = << Ev("error", FaultText(last'), NoAudio, 0) >>
              /\ UNCHANGED <<crashed, sock, promise, installed, eventHandlers,
                             upOut>>
              /\ IF last'.ev.type = "ws.error"
                 THEN ws'[s] \in {"OPEN", "CLOSING"}
                 ELSE ws'[s] = ws[s]]_vars

\* an error of the transport was reported and the socket is still OPEN
C18_Witness ==
    /\ last.ev.type = "ws.error"
    /\ installed[last.s]
    /\ ws[last.s] = "OPEN"
    /\ last.out = << Ev("error", "socket hang up", NoAudio, 0) >>

\* the events of a session the claim is about: a message of its upstream
\* connection, an input_audio of its client, an error or a close of its
\* upstream socket, the disconnect of its client
SessionEvent(ev) ==
    \/ ev \in Inbound \cup {Unparsable}
    \/ ev.type \in {"input_audio", "ws.error", "ws.close", "disconnect"}

\* the part of C19 that is about the state of the other session alone
OthersUntouched ==
    [][SessionEvent(last'.ev) =>
          \A b \in Sessions \ {last'.s} :
              /\ eventHandlers'[b] = eventHandlers[b]
              /\ ws'[b] = ws[b]
              /\ upOut'[b] = upOut[b]
              /\ sock'[b] = sock[b]
              /\ installed'[b] = installed[b]]_vars

\* C19: an event of one session leaves every other connected session as it
\* was: its registry, its upstream connection and what was sent on it, its
\* client's socket, and the server process that serves it (what the event's
\* handlers emit goes to the socket of the event's own session: the handlers
\* close over it).
C19_SessionsIndependent ==
    [][SessionEvent(last'.ev) =>
          \A b \in Sessions \ {last'.s} :
              sock[b] = "connected" =>
                  /\ eventHandlers'[b] = eventHandlers[b]
                  /\ ws'[b] = ws[b]
                  /\ upOut'[b] = upOut[b]
                  /\ sock'[b] = sock[b]
                  /\ installed'[b] = installed[b]
                  /\ crashed' = crashed]_vars

\* C20: a done signal leaves the collecting buffer empty, and the deltas
\* received since the previous done signal are those of the one unit
\* enqueued at this signal: every delta that decodes is in that unit, and
\* none is left over for a later one.
C20_OneUnitPerDelta ==
    [][DoneStep =>
          /\ audioChunks' = << >>
          /\ sinceDone' = << >>
          /\ WellFormed(sinceDone) # << >> =>
                /\ Len(audioQueue') = Len(audioQueue) + 1
                /\ WellFormed(audioQueue'[Len(audioQueue')].from)
                       = WellFormed(sinceDone)]_vars

\* the step is the disconnect listener of a session calling close()
CloseCallStep == last'.ev.type = "disconnect" /\ installed[last'.s]

\* C21: close() is idempotent: called twice it does what one call does;
\* called for a connection that is CLOSED (or CLOSING) it leaves the state,
\* raises nothing and emits no close event; and the socket of a connection
\* emits one close event at most.
C21_CloseIdempotent ==
    /\ [](\A w \in {"null", "CONNECTING", "OPEN", "CLOSING", "CLOSED"} :
             Close(Close(w)) = Close(w))
    /\ [](\A s \in Sessions : closeEvents[s] <= 1)
    /\ [][CloseCallStep =>
             LET s == last'.s
             IN  /\ ws[s] \in {"CLOSING", "CLOSED"} => ws'[s] = ws[s]
                 /\ last'.calls = << >>
                 /\ last'.out = << >>
                 /\ UNCHANGED <<crashed, closeEvents>>]_vars

\* close() was called for a connection whose socket had closed, and emitted
\* its close event, before
C21_Witness ==
    /\ last.ev.type = "disconnect"
    /\ installed[last.s]
    /\ sock[last.s] = "disconnected"
    /\ ws[last.s] = "CLOSED"
    /\ closeEvents[last.s] = 1

\* the step enqueues a unit
EnqueueStep == nextId' = nextId + 1

\* C22: a unit is built of deltas of the current conversation only: its data
\* is the concatenation of the deltas received since the conversation
\* started (and since the previous done signal), none of those a stopped
\* conversation left in the collecting buffer.
C22_NoStaleDeltas ==
    [][EnqueueStep =>
          audioQueue'[Len(audioQueue')].data
              = Flatten(SubSeq(audioChunks, stale + 1, Len(audioChunks)))]_vars

\* C23: while the conversation is stopped no capture is active: no stream
\* has a live track, no audio context is open, no processor is connected,
\* and the frame handled last was handled while a conversation was active.
C23_NoCaptureAfterStop ==
    ~active =>
        /\ liveStreams = {}
        /\ openContexts = {}
        /\ connected = {}
        /\ lastFrame.capture # 0 => lastFrame.whileActive

\* Audio object u waits in the queue or is at its head
InQueue(u) == \E i \in 1..Len(audioQueue) : audioQueue[i].id = u

\* play() was called on Audio object u
Started(u) == \E i \in 1..Len(started) : started[i] = u

\* C24: while the conversation is active a queue that holds a unit has a
\* unit playing, and every unit enqueued starts playing, unless the
\* conversation is stopped first, given that each playback that started
\* ends or errors.
C24_PlaybackProgress ==
    /\ []((active /\ audioQueue # << >>) => playing # {})
    /\ \A u \in 1..MaxUnits : InQueue(u) ~> (Started(u) \/ ~active)

\* a unit that had to wait behind two others plays
C24_Witness ==
    /\ active
    /\ Len(started) = 3
    /\ 3 \in playing
    /\ finished = {1, 2}

====
